---- MODULE Spec2Model ----
(***************************************************************************)
(* Model of cf_pc_control.py: the ControllerThread control loop, its       *)
(* arm/disarm methods, the telemetry callbacks, the keyboard handler and   *)
(* the waypoint sequencer coordinates().                                   *)
(*                                                                         *)
(* Representation of the program's floating point values:                  *)
(*  - positions, velocities, angles and gains are integers;                *)
(*  - thrust is counted in units of 1/ThrustUnit, so that the limit        *)
(*    .8 * 2**16 - 1 = 52427.8 is a whole number of units;                 *)
(*  - config C is held in units of 2^-18, so that 4 * C * 2**16 is the     *)
(*    integer C;                                                           *)
(*  - yaw_ref (radians in the program) is held in units of pi/180;         *)
(*  - attq and R are held as the yaw angle (degrees, a multiple of 90) of  *)
(*    the rotation they encode;                                            *)
(*  - err_mag, a Euclidean norm, is held as its square.                    *)
(* Threads are interleaved at the level of source statements; the          *)
(* augmented assignments on fields that two threads write (lines 290,      *)
(* 414, 418) are split into their load and their store.                    *)
(***************************************************************************)
EXTENDS Integers, Sequences, FiniteSets, TLC

\* ---------------------------------------------------------------- constants

\* thrust units per thrust count (the limit .8 * 2**16 - 1 has one decimal, in fifths)
ThrustUnit == 5

thrust_step == 5000 * ThrustUnit
thrust_initial == 0
thrust_limit == <<0, (8 * 65536 * ThrustUnit) \div 10 - ThrustUnit>>
roll_limit == <<-30, 30>>
pitch_limit == <<-30, 30>>
yaw_limit == <<-200, 200>>
cumerr_limit == <<-200, 200>>
\* 0xffff, in thrust units
thrust_max_trim == 65535 * ThrustUnit
period_in_ms == 20

\* ------------------------------------------------------------ pure helpers

\* np.clip with the upper limit left out
ClipLowerOnly(x, lim) == IF x < lim[1] THEN lim[1] ELSE x

\* np.clip(x, lo, hi)
Clip(x, lim) == IF x < lim[1] THEN lim[1] ELSE IF x > lim[2] THEN lim[2] ELSE x

Min(a, b) == IF a < b THEN a ELSE b
Max(a, b) == IF a > b THEN a ELSE b

\* int(x) of a thrust held in thrust units: truncation toward zero, in counts
IntThrust(t) == IF t >= 0 THEN t \div ThrustUnit ELSE -((-t) \div ThrustUnit)

\* cos and sin of a multiple of 90 degrees
Cos90(a) == CASE a % 360 = 0 -> 1 [] a % 360 = 90 -> 0 [] a % 360 = 180 -> -1 [] OTHER -> 0
Sin90(a) == CASE a % 360 = 0 -> 0 [] a % 360 = 90 -> 1 [] a % 360 = 180 -> 0 [] OTHER -> -1

\* 2 * cos(radians(a)) for the stabilizer angles of the model (multiples of 60 degrees)
TwoCos(a) == CASE a % 360 = 0 -> 2 [] a % 360 = 60 -> 1 [] a % 360 = 120 -> -1
               [] a % 360 = 180 -> -2 [] a % 360 = 240 -> -1 [] OTHER -> 1

\* np.dot(R, v) for R the rotation by yaw angle r about z
Rotate(r, v) == <<Cos90(r) * v[1] - Sin90(r) * v[2], Sin90(r) * v[1] + Cos90(r) * v[2], v[3]>>

\* np.linalg.norm([ex, ey, ez]), squared
NormSq(e) == e[1] * e[1] + e[2] * e[2] + e[3] * e[3]

\* the comparison of line 455 turned round: err_mag < margin
ErrAboveReversed(e2, margin) == e2 < margin * margin

\* err_mag > margin, for err_mag held as its square
ErrAbove(e2, margin) == IF margin < 0 THEN TRUE ELSE e2 > margin * margin

\* the comparison of line 407 with the equality let through: delta_time >= 0
DeadlineMetOrEqual(d) == d >= 0

\* the condition of line 407
DeadlineMet(d) == d > 0

\* the condition of line 209 without its last disjunct
PositionOutOfBoundsNoCeiling(p) ==
    \/ Max(IF p[1] < 0 THEN -p[1] ELSE p[1], IF p[2] < 0 THEN -p[2] ELSE p[2]) > 20
    \/ p[3] < 0

\* the condition of make_position_sanity_check's raise
PositionOutOfBounds(p) ==
    \/ Max(IF p[1] < 0 THEN -p[1] ELSE p[1], IF p[2] < 0 THEN -p[2] ELSE p[2]) > 20
    \/ p[3] < 0
    \/ p[3] > 5

\* 1 / (cos(radians(roll)) * cos(radians(pitch))), the tilt compensation of line 304
TiltGain(att) == 4 \div (TwoCos(att[1]) * TwoCos(att[2]))

\* the raw thrust of lines 301-305, in thrust units
ThrustRaw(cfg, ez, vz, cum, att) ==
    ThrustUnit * cfg.thrust.C
      * (cfg.thrust.kP * ez - cfg.thrust.kD * vz + cfg.m * cfg.g + cfg.thrust.kI * cum)
      * TiltGain(att)

\* lines 313, 314: the world-frame pitch and roll commands
PitchRaw(cfg, ex, vx) == 20 * (cfg.pitchroll.kP * ex - cfg.pitchroll.kD * vx)
RollRaw(cfg, ey, vy) == -20 * (cfg.pitchroll.kP * ey - cfg.pitchroll.kD * vy)

\* lines 317-322: <<pitch, roll>> rotated by A(yaw)
RotatePitchRoll(a, p, r) == <<Cos90(a) * p - Sin90(a) * r, Sin90(a) * p + Cos90(a) * r>>

\* line 330
YawrateRaw(cfg, eyaw_, rate) == -(cfg.yaw.kP * eyaw_ - cfg.yaw.kD * rate)

\* ------------------------------------------------------------------ inputs

\* contents config.json may have when read_config opens it
CfgA == [thrust |-> [kP |-> 2, kD |-> 1, kI |-> 1, C |-> 100], m |-> 1, g |-> 10,
         pitchroll |-> [kP |-> 1, kD |-> 1], yaw |-> [kP |-> 1, kD |-> 1],
         waypoint_margin |-> 100,
         coordinates |-> [x |-> <<0, 0>>, y |-> <<0, 0>>, z |-> <<1, 101>>,
                          yaw |-> <<0, 90>>, relative |-> TRUE]]
CfgB == [thrust |-> [kP |-> 10, kD |-> 0, kI |-> 2, C |-> 3000], m |-> 1, g |-> 10,
         pitchroll |-> [kP |-> 5, kD |-> 0], yaw |-> [kP |-> 3, kD |-> 2],
         waypoint_margin |-> 0,
         coordinates |-> [x |-> <<0, 0>>, y |-> <<0, 0>>, z |-> <<1, 101>>,
                          yaw |-> <<0, 90>>, relative |-> FALSE]]
Configs == {CfgA, CfgB}

\* config.json edited during the flight to hold the first waypoint only
CfgC == [CfgA EXCEPT !.coordinates = [x |-> <<0>>, y |-> <<0>>, z |-> <<1>>,
                                      yaw |-> <<0>>, relative |-> TRUE]]
ConfigsReload == {CfgA, CfgC}

\* how far beyond a limit of the operating box the out-of-bounds samples lie
Overshoot == 1

\* telemetry samples delivered while the program runs: on the ground at the origin's
\* reference height, 100 m above it (an estimate that diverged), 100 m below it
PosFlight == {<<0, 0, 1>>, <<0, 0, 101>>, <<0, 0, -99>>}
PosSeq == {<<0, 0, 1>>, <<0, 0, -99>>, <<20 + Overshoot, 1, 1>>}
StabSeq == {<<0, 0, 0>>, <<60, 0, 90>>}

\* position samples around the operating box of make_position_sanity_check
XYBox == {-(20 + Overshoot), -20, 0, 20, 20 + Overshoot}
ZBox == {-Overshoot, 0, 1, 5, 5 + Overshoot}
PosBox == {<<x, y, z>> : x \in XYBox, y \in XYBox, z \in ZBox}

\* telemetry samples delivered while a tick runs: two samples of each log block
PosEst == {<<0, 0, 1>>, <<0, 0, 101>>}
VelEst == {<<0, 0, 0>>, <<1, 0, 2>>}
YawrateEst == {0, 10}
AttqEst == {0, 90}

\* the inputs of one control tick
PosLaw == {<<0, 0, 1>>, <<1, -1, 0>>, <<20 + Overshoot, -20, 101>>, <<0, 0, -99>>,
           <<-2, 0, 1>>}
RefLaw == {<<0, 0, 1>>, <<1, 0, 101>>}
VelLaw == {<<0, 0, 0>>, <<1, -1, 2>>, <<-9, 9, -50>>}
StabLaw == {<<0, 0, 0>>, <<60, 0, 90>>, <<60, 60, -90>>, <<120, 0, 0>>}
AttqLaw == {0, 90, 180, 270}
YawrateLaw == {0, 10, -500}
YawRefLaw == {0, 90}
CumLaw == {-200, 0, 200}

\* by how many ms the slowest tick exceeds the period
Late == 1

\* the time a tick has taken when it reaches line 406, in ms
Elapsed == {0, period_in_ms - 1, period_in_ms, period_in_ms + Late}

\* keys the operator presses
Keys == {"e", "q", "Q", ">", "<"}
ArmKeys == {"e", "q", "Q"}
TrimKeys == {"e", ">", "<"}

\* the position sample of a vehicle that holds the seeded reference
PosHover == {<<0, 0, 1>>}

\* ------------------------------------------------------------------- state

VARIABLES
    \* ControllerThread fields
    enabled, pos, vel, attq, R, yawrate, stab_att,
    cum_height_err, err_mag, roll_r, pitch_r, yawrate_r, thrust_r,
    pos_ref, yaw_ref, pos_ref_initial, config,
    \* history: the value of pos_ref that the tick which stored err_mag had read
    err_mag_ref,
    \* the link: cf.is_connected(), whether a position sample was delivered,
    \* and the caller that sent the last setpoint the vehicle received
    connected, pos_received, sent,
    \* the control thread: position in run() and the locals of one tick; in
    \* loop_sleep, the time since the tick started (ms) and delta_time (ms)
    cpc, yaw, e, eyaw, acc, sp, elapsed, delta_time,
    \* history: the value of pos_ref the tick read at line 278
    e_ref,
    \* the main thread: which of lines 556/557 it runs, its position, the key
    \* read, the waypoint index and the waypoint read, the trim load, the length of the
    \* range the for loop of line 432 iterates over
    prog, mpc, ch, n, wp, trim, nwp

fields == <<enabled, pos, vel, attq, R, yawrate, stab_att, cum_height_err, err_mag, err_mag_ref,
            roll_r, pitch_r, yawrate_r, thrust_r, pos_ref, yaw_ref, pos_ref_initial, config>>
estimate == <<pos, vel, attq, R, yawrate, stab_att>>
outputs == <<roll_r, pitch_r, yawrate_r, thrust_r>>
link == <<connected, pos_received, sent>>
ctl == <<cpc, yaw, e, eyaw, acc, sp, elapsed, delta_time, e_ref>>
main == <<prog, mpc, ch, n, wp, trim, nwp>>
vars == <<fields, link, ctl, main>>

NoSp == <<0, 0, 0, 0>>

\* the history variables when no tick has read pos_ref
NoRef == <<0, 0, 0>>

\* the state after ControllerThread.__init__, control.start() and cf.open_link
InitFields ==
    /\ enabled = FALSE
    /\ pos = <<0, 0, 0>> /\ vel = <<0, 0, 0>> /\ attq = 0 /\ R = 0
    /\ yawrate = 0 /\ stab_att = <<0, 0, 0>>
    /\ cum_height_err = 0 /\ err_mag = 0 /\ err_mag_ref = NoRef
    /\ roll_r = 0 /\ pitch_r = 0 /\ yawrate_r = 0 /\ thrust_r = thrust_initial
    /\ pos_ref = <<0, 0, 1>> /\ yaw_ref = 0 /\ pos_ref_initial = <<0, 0, 1>>

InitCtlLocals ==
    /\ yaw = 0 /\ e = <<0, 0, 0>> /\ eyaw = 0 /\ acc = 0 /\ sp = NoSp
    /\ elapsed = 0 /\ delta_time = 0 /\ e_ref = NoRef

Init(P, C) ==
    /\ InitFields /\ config \in C
    /\ connected = FALSE /\ pos_received = FALSE
    /\ sent = "none"
    /\ cpc = "connect_wait" /\ InitCtlLocals
    /\ prog \in P
    /\ mpc = IF prog = "keyboard" THEN "key" ELSE "seq_key"
    /\ ch = "" /\ n = 0 /\ wp = <<0, 0, 0, 0>> /\ trim = 0 /\ nwp = 0

\* ------------------------------------------------------- the control thread

\* the thread is a daemon: it runs until the main thread has ended, by returning from
\* line 559 or by an exception that nothing catches
Alive == mpc \notin {"exited", "raised"}

\* lines 220-221: while not self.cf.is_connected(): time.sleep(0.2)
ConnectWait ==
    /\ Alive /\ cpc = "connect_wait" /\ connected
    /\ cpc' = "reset_estimator"
    /\ UNCHANGED <<fields, link, yaw, e, eyaw, acc, sp, main, elapsed, delta_time, e_ref>>

\* lines 224, 373-382: the reset handshake and its 1.6 s of sleep, 80 telemetry
\* periods: the model follows the runs in which a position sample has arrived by then
ResetEstimator ==
    /\ Alive /\ cpc = "reset_estimator" /\ pos_received
    /\ cpc' = "sanity"
    /\ UNCHANGED <<fields, link, yaw, e, eyaw, acc, sp, main, elapsed, delta_time, e_ref>>

\* lines 226, 206-210: the RuntimeError ends run(), and with it the thread
MakePositionSanityCheck ==
    /\ Alive /\ cpc = "sanity"
    /\ cpc' = IF PositionOutOfBounds(pos) THEN "dead" ELSE "seed_pos_ref"
    /\ UNCHANGED <<fields, link, yaw, e, eyaw, acc, sp, main, elapsed, delta_time, e_ref>>

\* line 230
SeedPosRef ==
    /\ Alive /\ cpc = "seed_pos_ref"
    /\ pos_ref' = <<pos[1], pos[2], 1>>
    /\ cpc' = "seed_yaw_ref"
    /\ UNCHANGED <<enabled, estimate, cum_height_err, err_mag, err_mag_ref, outputs, yaw_ref,
                   pos_ref_initial, config, link, yaw, e, eyaw, acc, sp, main, elapsed, delta_time, e_ref>>

\* line 231
SeedYawRef ==
    /\ Alive /\ cpc = "seed_yaw_ref"
    /\ yaw_ref' = 0
    /\ cpc' = "seed_initial"
    /\ UNCHANGED <<enabled, estimate, cum_height_err, err_mag, err_mag_ref, outputs, pos_ref,
                   pos_ref_initial, config, link, yaw, e, eyaw, acc, sp, main, elapsed, delta_time, e_ref>>

\* line 235; the loop is entered at line 243
SeedInitial ==
    /\ Alive /\ cpc = "seed_initial"
    /\ pos_ref_initial' = pos_ref
    /\ cpc' = "c_euler"
    /\ UNCHANGED <<enabled, estimate, cum_height_err, err_mag, err_mag_ref, outputs, pos_ref,
                   yaw_ref, config, link, yaw, e, eyaw, acc, sp, main, elapsed, delta_time, e_ref>>

\* line 275: roll, pitch, yaw = trans.euler_from_quaternion(self.attq)
CalcEuler ==
    /\ Alive /\ cpc = "c_euler"
    /\ yaw' = attq
    /\ cpc' = "c_err"
    /\ UNCHANGED <<fields, link, e, eyaw, acc, sp, main, elapsed, delta_time, e_ref>>

\* line 278: ex, ey, ez = self.pos_ref - self.pos
CalcErr ==
    /\ Alive /\ cpc = "c_err"
    /\ e' = <<pos_ref[1] - pos[1], pos_ref[2] - pos[2], pos_ref[3] - pos[3]>>
    /\ e_ref' = pos_ref
    /\ cpc' = "c_err_mag"
    /\ UNCHANGED <<fields, link, yaw, eyaw, acc, sp, main, elapsed, delta_time>>

\* line 282
CalcErrMag ==
    /\ Alive /\ cpc = "c_err_mag"
    /\ err_mag' = NormSq(e)
    /\ err_mag_ref' = e_ref
    /\ cpc' = "c_eyaw"
    /\ UNCHANGED <<enabled, estimate, cum_height_err, outputs, pos_ref, yaw_ref,
                   pos_ref_initial, config, link, yaw, e, eyaw, acc, sp, main, elapsed, delta_time, e_ref>>

\* line 284: eyaw = np.degrees(self.yaw_ref) - self.stab_att[2]
CalcEyaw ==
    /\ Alive /\ cpc = "c_eyaw"
    /\ eyaw' = yaw_ref - stab_att[3]
    /\ cpc' = "c_acc_load"
    /\ UNCHANGED <<fields, link, yaw, e, acc, sp, main, elapsed, delta_time, e_ref>>

\* lines 289-290: if self.enabled, the load and the add of cum_height_err += ez
CalcAccLoad ==
    /\ Alive /\ cpc = "c_acc_load"
    /\ IF enabled
         THEN acc' = cum_height_err + e[3] /\ cpc' = "c_acc_store"
         ELSE acc' = acc /\ cpc' = "c_thrust"
    /\ UNCHANGED <<fields, link, yaw, e, eyaw, sp, main, elapsed, delta_time, e_ref>>

\* line 290: the store of cum_height_err += ez
CalcAccStore ==
    /\ Alive /\ cpc = "c_acc_store"
    /\ cum_height_err' = acc
    /\ cpc' = "c_acc_clip"
    /\ UNCHANGED <<enabled, estimate, err_mag, err_mag_ref, outputs, pos_ref, yaw_ref,
                   pos_ref_initial, config, link, yaw, e, eyaw, acc, sp, main, elapsed, delta_time, e_ref>>

\* lines 291-292 left out: the integral is not clipped
CalcAccClipSkipped ==
    /\ Alive /\ cpc = "c_acc_clip"
    /\ cpc' = "c_thrust"
    /\ UNCHANGED <<fields, link, yaw, e, eyaw, acc, sp, main, elapsed, delta_time, e_ref>>

\* lines 291-292
CalcAccClip ==
    /\ Alive /\ cpc = "c_acc_clip"
    /\ cum_height_err' = Clip(cum_height_err, cumerr_limit)
    /\ cpc' = "c_thrust"
    /\ UNCHANGED <<enabled, estimate, err_mag, err_mag_ref, outputs, pos_ref, yaw_ref,
                   pos_ref_initial, config, link, yaw, e, eyaw, acc, sp, main, elapsed, delta_time, e_ref>>

\* lines 294-305
CalcThrust ==
    /\ Alive /\ cpc = "c_thrust"
    /\ thrust_r' = ThrustRaw(config, e[3], vel[3], cum_height_err, stab_att)
    /\ cpc' = "c_pitch"
    /\ UNCHANGED <<enabled, estimate, cum_height_err, err_mag, err_mag_ref, roll_r, pitch_r, yawrate_r,
                   pos_ref, yaw_ref, pos_ref_initial, config, link, yaw, e, eyaw, acc, sp, main, elapsed, delta_time, e_ref>>

\* lines 309-313
CalcPitch ==
    /\ Alive /\ cpc = "c_pitch"
    /\ pitch_r' = PitchRaw(config, e[1], vel[1])
    /\ cpc' = "c_roll"
    /\ UNCHANGED <<enabled, estimate, cum_height_err, err_mag, err_mag_ref, roll_r, thrust_r, yawrate_r,
                   pos_ref, yaw_ref, pos_ref_initial, config, link, yaw, e, eyaw, acc, sp, main, elapsed, delta_time, e_ref>>

\* line 314
CalcRoll ==
    /\ Alive /\ cpc = "c_roll"
    /\ roll_r' = RollRaw(config, e[2], vel[2])
    /\ cpc' = "c_rotate"
    /\ UNCHANGED <<enabled, estimate, cum_height_err, err_mag, err_mag_ref, pitch_r, thrust_r, yawrate_r,
                   pos_ref, yaw_ref, pos_ref_initial, config, link, yaw, e, eyaw, acc, sp, main, elapsed, delta_time, e_ref>>

\* lines 317-322 with the reference yaw in place of the estimated yaw
CalcRotateByYawRef ==
    /\ Alive /\ cpc = "c_rotate"
    /\ pitch_r' = RotatePitchRoll(yaw_ref, pitch_r, roll_r)[1]
    /\ roll_r' = RotatePitchRoll(yaw_ref, pitch_r, roll_r)[2]
    /\ cpc' = "c_yawrate"
    /\ UNCHANGED <<enabled, estimate, cum_height_err, err_mag, err_mag_ref, thrust_r, yawrate_r,
                   pos_ref, yaw_ref, pos_ref_initial, config, link, yaw, e, eyaw, acc, sp, main, elapsed, delta_time, e_ref>>

\* lines 317-322
CalcRotate ==
    /\ Alive /\ cpc = "c_rotate"
    /\ pitch_r' = RotatePitchRoll(yaw, pitch_r, roll_r)[1]
    /\ roll_r' = RotatePitchRoll(yaw, pitch_r, roll_r)[2]
    /\ cpc' = "c_yawrate"
    /\ UNCHANGED <<enabled, estimate, cum_height_err, err_mag, err_mag_ref, thrust_r, yawrate_r,
                   pos_ref, yaw_ref, pos_ref_initial, config, link, yaw, e, eyaw, acc, sp, main, elapsed, delta_time, e_ref>>

\* lines 326-330 with the reload of print_at_period moved in front of them
CalcYawrateAfterReload ==
    /\ Alive /\ cpc = "c_yawrate"
    /\ \E c \in {CfgA, CfgB} : config' = c /\ yawrate_r' = YawrateRaw(c, eyaw, yawrate)
    /\ cpc' = "c_clip_roll"
    /\ UNCHANGED <<enabled, estimate, cum_height_err, err_mag, err_mag_ref, roll_r, pitch_r, thrust_r,
                   pos_ref, yaw_ref, pos_ref_initial, link, yaw, e, eyaw, acc, sp,
                   elapsed, delta_time, e_ref, main>>

\* lines 326-330
CalcYawrate ==
    /\ Alive /\ cpc = "c_yawrate"
    /\ yawrate_r' = YawrateRaw(config, eyaw, yawrate)
    /\ cpc' = "c_clip_roll"
    /\ UNCHANGED <<enabled, estimate, cum_height_err, err_mag, err_mag_ref, roll_r, pitch_r, thrust_r,
                   pos_ref, yaw_ref, pos_ref_initial, config, link, yaw, e, eyaw, acc, sp, main, elapsed, delta_time, e_ref>>

\* line 333
ClipRoll ==
    /\ Alive /\ cpc = "c_clip_roll"
    /\ roll_r' = Clip(roll_r, roll_limit)
    /\ cpc' = "c_clip_pitch"
    /\ UNCHANGED <<enabled, estimate, cum_height_err, err_mag, err_mag_ref, pitch_r, thrust_r, yawrate_r,
                   pos_ref, yaw_ref, pos_ref_initial, config, link, yaw, e, eyaw, acc, sp, main, elapsed, delta_time, e_ref>>

\* line 334
ClipPitch ==
    /\ Alive /\ cpc = "c_clip_pitch"
    /\ pitch_r' = Clip(pitch_r, pitch_limit)
    /\ cpc' = "c_clip_yawrate"
    /\ UNCHANGED <<enabled, estimate, cum_height_err, err_mag, err_mag_ref, roll_r, thrust_r, yawrate_r,
                   pos_ref, yaw_ref, pos_ref_initial, config, link, yaw, e, eyaw, acc, sp, main, elapsed, delta_time, e_ref>>

\* line 335
ClipYawrate ==
    /\ Alive /\ cpc = "c_clip_yawrate"
    /\ yawrate_r' = Clip(yawrate_r, yaw_limit)
    /\ cpc' = "c_clip_thrust"
    /\ UNCHANGED <<enabled, estimate, cum_height_err, err_mag, err_mag_ref, roll_r, pitch_r, thrust_r,
                   pos_ref, yaw_ref, pos_ref_initial, config, link, yaw, e, eyaw, acc, sp, main, elapsed, delta_time, e_ref>>

\* line 336
ClipThrust ==
    /\ Alive /\ cpc = "c_clip_thrust"
    /\ thrust_r' = Clip(thrust_r, thrust_limit)
    /\ cpc' = "c_print"
    /\ UNCHANGED <<enabled, estimate, cum_height_err, err_mag, err_mag_ref, roll_r, pitch_r, yawrate_r,
                   pos_ref, yaw_ref, pos_ref_initial, config, link, yaw, e, eyaw, acc, sp, main, elapsed, delta_time, e_ref>>

\* lines 363, 365-371: every half second print_at_period reads config.json again
PrintAtPeriod(C) ==
    /\ Alive /\ cpc = "c_print"
    /\ \E due \in BOOLEAN : \E c \in C : config' = IF due THEN c ELSE config
    /\ cpc' = "r_enabled"
    /\ UNCHANGED <<enabled, estimate, cum_height_err, err_mag, err_mag_ref, outputs, pos_ref, yaw_ref,
                   pos_ref_initial, link, yaw, e, eyaw, acc, sp, main, elapsed, delta_time, e_ref>>

\* the locals of calc_control_signals and run's sp go out of use when a tick ends
TickEnds ==
    /\ yaw' = 0 /\ e' = <<0, 0, 0>> /\ eyaw' = 0 /\ acc' = 0 /\ sp' = NoSp /\ e_ref' = NoRef
    /\ UNCHANGED <<elapsed, delta_time>>

\* line 246: if self.enabled
RunIfEnabled ==
    /\ Alive /\ cpc = "r_enabled"
    /\ IF enabled
         THEN cpc' = "r_sp" /\ UNCHANGED <<yaw, e, eyaw, acc, sp, elapsed, delta_time, e_ref>>
         ELSE cpc' = "loop_sleep" /\ TickEnds
    /\ UNCHANGED <<fields, link, main>>

\* lines 247-248
RunSp ==
    /\ Alive /\ cpc = "r_sp"
    /\ sp' = <<roll_r, pitch_r, yawrate_r, IntThrust(thrust_r)>>
    /\ cpc' = "r_send"
    /\ UNCHANGED <<fields, link, yaw, e, eyaw, acc, main, elapsed, delta_time, e_ref>>

\* line 249
RunSend ==
    /\ Alive /\ cpc = "r_send"
    /\ sent' = "run"
    /\ cpc' = "r_log"
    /\ UNCHANGED <<fields, connected, pos_received, yaw, e, eyaw, acc, sp, main, elapsed, delta_time, e_ref>>

\* lines 250, 254-269: the record goes to the flight log, no field changes
RunLog ==
    /\ Alive /\ cpc = "r_log"
    /\ cpc' = "loop_sleep" /\ TickEnds
    /\ UNCHANGED <<fields, link, main>>

\* line 406: delta_time = 1e-3 * self.period_in_ms - (time.time() - time_start), for
\* the time the tick has taken
LoopSleepDelta ==
    /\ Alive /\ cpc = "loop_sleep"
    /\ \E t \in Elapsed : elapsed' = t /\ delta_time' = period_in_ms - t
    /\ cpc' = "ls_if"
    /\ UNCHANGED <<fields, link, yaw, e, eyaw, acc, sp, main, e_ref>>

\* line 407: if delta_time > 0
LoopSleepIf ==
    /\ Alive /\ cpc = "ls_if"
    /\ cpc' = IF DeadlineMet(delta_time) THEN "ls_sleep" ELSE "ls_warn"
    /\ UNCHANGED <<fields, link, yaw, e, eyaw, acc, sp, elapsed, delta_time, e_ref, main>>

\* line 408: time.sleep(delta_time) returns; loop_sleep returns and the next tick
\* starts (lines 243-245)
LoopSleepSleep ==
    /\ Alive /\ cpc = "ls_sleep"
    /\ cpc' = "c_euler"
    /\ elapsed' = 0 /\ delta_time' = 0
    /\ UNCHANGED <<fields, link, yaw, e, eyaw, acc, sp, main, e_ref>>

\* lines 410-411: the warning is logged; loop_sleep returns and the next tick starts
LoopSleepWarn ==
    /\ Alive /\ cpc = "ls_warn"
    /\ cpc' = "c_euler"
    /\ elapsed' = 0 /\ delta_time' = 0
    /\ UNCHANGED <<fields, link, yaw, e, eyaw, acc, sp, main, e_ref>>

\* lines 252, 404-411
LoopSleep == LoopSleepDelta \/ LoopSleepIf \/ LoopSleepSleep \/ LoopSleepWarn

Startup ==
    \/ ConnectWait \/ ResetEstimator \/ MakePositionSanityCheck
    \/ SeedPosRef \/ SeedYawRef \/ SeedInitial

CalcControlSignals(C) ==
    \/ CalcEuler \/ CalcErr \/ CalcErrMag \/ CalcEyaw
    \/ CalcAccLoad \/ CalcAccStore \/ CalcAccClip
    \/ CalcThrust \/ CalcPitch \/ CalcRoll \/ CalcRotate \/ CalcYawrate
    \/ ClipRoll \/ ClipPitch \/ ClipYawrate \/ ClipThrust \/ PrintAtPeriod(C)

Dispatch == RunIfEnabled \/ RunSp \/ RunSend \/ RunLog

\* ------------------------------------------- the link and its callbacks

\* cf.open_link (line 554) completes: _connected starts the four log blocks
Connected ==
    /\ Alive /\ ~connected
    /\ connected' = TRUE
    /\ UNCHANGED <<fields, pos_received, sent, ctl, main>>

\* lines 172-176
LogDataStabAtt(S) ==
    /\ Alive /\ connected
    /\ \E a \in S : stab_att' = a
    /\ UNCHANGED <<enabled, pos, vel, attq, R, yawrate, cum_height_err, err_mag, err_mag_ref, outputs,
                   pos_ref, yaw_ref, pos_ref_initial, config, link, ctl, main>>

\* lines 178-182
LogDataPos(S) ==
    /\ Alive /\ connected
    /\ \E p \in S : pos' = p
    /\ pos_received' = TRUE
    /\ UNCHANGED <<enabled, vel, attq, R, yawrate, stab_att, cum_height_err, err_mag, err_mag_ref, outputs,
                   pos_ref, yaw_ref, pos_ref_initial, config, connected, sent, ctl, main>>

\* lines 184-190
LogDataVel(S, Y) ==
    /\ Alive /\ connected
    /\ \E vel_bf \in S : vel' = Rotate(R, vel_bf)
    /\ \E y \in Y : yawrate' = y
    /\ UNCHANGED <<enabled, pos, attq, R, stab_att, cum_height_err, err_mag, err_mag_ref, outputs,
                   pos_ref, yaw_ref, pos_ref_initial, config, link, ctl, main>>

\* lines 192-200
LogDataAtt(S) ==
    /\ Alive /\ connected
    /\ \E q \in S : attq' = q /\ R' = q
    /\ UNCHANGED <<enabled, pos, vel, yawrate, stab_att, cum_height_err, err_mag, err_mag_ref, outputs,
                   pos_ref, yaw_ref, pos_ref_initial, config, link, ctl, main>>

\* ----------------------------------------------------------- the main thread

\* where enable() returns to: line 519 in handle_keyboard_input, line 430 in coordinates
AfterEnable == IF prog = "keyboard" THEN "key" ELSE "wp_range"

\* where disable() returns to: lines 523 and 525-527, line 460
AfterDisable == IF prog = "keyboard" /\ ch # "Q" THEN "key" ELSE "close"

\* line 400 left out: enable() sends no setpoint
EnableSendSkipped ==
    /\ mpc = "en_send"
    /\ mpc' = "en_cum"
    /\ UNCHANGED <<fields, link, ctl, prog, ch, n, wp, trim, nwp>>

\* line 400
EnableSend ==
    /\ mpc = "en_send"
    /\ sent' = "enable"
    /\ mpc' = "en_cum"
    /\ UNCHANGED <<fields, connected, pos_received, ctl, prog, ch, n, wp, trim, nwp>>

\* line 401
EnableCum ==
    /\ mpc = "en_cum"
    /\ cum_height_err' = 0
    /\ mpc' = "en_set"
    /\ UNCHANGED <<enabled, estimate, err_mag, err_mag_ref, outputs, pos_ref, yaw_ref, pos_ref_initial,
                   config, link, ctl, prog, ch, n, wp, trim, nwp>>

\* line 402
EnableSet ==
    /\ mpc = "en_set"
    /\ enabled' = TRUE
    /\ mpc' = AfterEnable
    /\ UNCHANGED <<estimate, cum_height_err, err_mag, err_mag_ref, outputs, pos_ref, yaw_ref,
                   pos_ref_initial, config, link, ctl, prog, ch, n, wp, trim, nwp>>

\* lines 385-386 (stop is True in every call after the constructor's)
DisableSend ==
    /\ mpc = "dis_send"
    /\ sent' = "disable"
    /\ mpc' = "dis_flag"
    /\ UNCHANGED <<fields, connected, pos_received, ctl, prog, ch, n, wp, trim, nwp>>

\* lines 387-389 left out: disable() leaves enabled as it is
DisableFlagSkipped ==
    /\ mpc = "dis_flag"
    /\ mpc' = "dis_roll"
    /\ UNCHANGED <<fields, link, ctl, prog, ch, n, wp, trim, nwp>>

\* lines 387-389
DisableFlag ==
    /\ mpc = "dis_flag"
    /\ enabled' = FALSE
    /\ mpc' = "dis_roll"
    /\ UNCHANGED <<estimate, cum_height_err, err_mag, err_mag_ref, outputs, pos_ref, yaw_ref,
                   pos_ref_initial, config, link, ctl, prog, ch, n, wp, trim, nwp>>

\* line 390
DisableRoll ==
    /\ mpc = "dis_roll"
    /\ roll_r' = 0
    /\ mpc' = "dis_pitch"
    /\ UNCHANGED <<enabled, estimate, cum_height_err, err_mag, err_mag_ref, pitch_r, yawrate_r, thrust_r,
                   pos_ref, yaw_ref, pos_ref_initial, config, link, ctl, prog, ch, n, wp, trim, nwp>>

\* line 391
DisablePitch ==
    /\ mpc = "dis_pitch"
    /\ pitch_r' = 0
    /\ mpc' = "dis_yawrate"
    /\ UNCHANGED <<enabled, estimate, cum_height_err, err_mag, err_mag_ref, roll_r, yawrate_r, thrust_r,
                   pos_ref, yaw_ref, pos_ref_initial, config, link, ctl, prog, ch, n, wp, trim, nwp>>

\* line 392
DisableYawrate ==
    /\ mpc = "dis_yawrate"
    /\ yawrate_r' = 0
    /\ mpc' = "dis_thrust"
    /\ UNCHANGED <<enabled, estimate, cum_height_err, err_mag, err_mag_ref, roll_r, pitch_r, thrust_r,
                   pos_ref, yaw_ref, pos_ref_initial, config, link, ctl, prog, ch, n, wp, trim, nwp>>

\* line 393 left out: disable() returns without resetting thrust_r
DisableThrustSkipped ==
    /\ mpc = "dis_thrust"
    /\ mpc' = AfterDisable
    /\ UNCHANGED <<fields, link, ctl, prog, ch, n, wp, trim, nwp>>

\* line 393
DisableThrust ==
    /\ mpc = "dis_thrust"
    /\ thrust_r' = thrust_initial
    /\ mpc' = AfterDisable
    /\ UNCHANGED <<enabled, estimate, cum_height_err, err_mag, err_mag_ref, roll_r, pitch_r, yawrate_r,
                   pos_ref, yaw_ref, pos_ref_initial, config, link, ctl, prog, ch, n, wp, trim, nwp>>

Enable == EnableSend \/ EnableCum \/ EnableSet

Disable == DisableSend \/ DisableFlag \/ DisableRoll \/ DisablePitch \/ DisableYawrate
             \/ DisableThrust

\* line 414: the load and the add of thrust_r += thrust_step
IncreaseLoad ==
    /\ mpc = "inc_load"
    /\ trim' = thrust_r + thrust_step
    /\ mpc' = "inc_store"
    /\ UNCHANGED <<fields, link, ctl, prog, ch, n, wp, nwp>>

\* line 414: the store
IncreaseStore ==
    /\ mpc = "inc_store"
    /\ thrust_r' = trim
    /\ mpc' = "inc_min"
    /\ trim' = 0
    /\ UNCHANGED <<enabled, estimate, cum_height_err, err_mag, err_mag_ref, roll_r, pitch_r, yawrate_r,
                   pos_ref, yaw_ref, pos_ref_initial, config, link, ctl, prog, ch, n, wp, nwp>>

\* line 415 left out: increase_thrust() returns without clamping
IncreaseMinSkipped ==
    /\ mpc = "inc_min"
    /\ mpc' = "key"
    /\ UNCHANGED <<fields, link, ctl, prog, ch, n, wp, trim, nwp>>

\* line 415
IncreaseMin ==
    /\ mpc = "inc_min"
    /\ thrust_r' = Min(thrust_r, thrust_max_trim)
    /\ mpc' = "key"
    /\ UNCHANGED <<enabled, estimate, cum_height_err, err_mag, err_mag_ref, roll_r, pitch_r, yawrate_r,
                   pos_ref, yaw_ref, pos_ref_initial, config, link, ctl, prog, ch, n, wp, trim, nwp>>

\* line 418: the load and the subtraction of thrust_r -= thrust_step
DecreaseLoad ==
    /\ mpc = "dec_load"
    /\ trim' = thrust_r - thrust_step
    /\ mpc' = "dec_store"
    /\ UNCHANGED <<fields, link, ctl, prog, ch, n, wp, nwp>>

\* line 418: the store
DecreaseStore ==
    /\ mpc = "dec_store"
    /\ thrust_r' = trim
    /\ mpc' = "dec_max"
    /\ trim' = 0
    /\ UNCHANGED <<enabled, estimate, cum_height_err, err_mag, err_mag_ref, roll_r, pitch_r, yawrate_r,
                   pos_ref, yaw_ref, pos_ref_initial, config, link, ctl, prog, ch, n, wp, nwp>>

\* line 419
DecreaseMax ==
    /\ mpc = "dec_max"
    /\ thrust_r' = Max(0, thrust_r)
    /\ mpc' = "key"
    /\ UNCHANGED <<enabled, estimate, cum_height_err, err_mag, err_mag_ref, roll_r, pitch_r, yawrate_r,
                   pos_ref, yaw_ref, pos_ref_initial, config, link, ctl, prog, ch, n, wp, trim, nwp>>

IncreaseThrust == IncreaseLoad \/ IncreaseStore \/ IncreaseMin

DecreaseThrust == DecreaseLoad \/ DecreaseStore \/ DecreaseMax

\* lines 467, 483-488, 518-527: the keys that arm, disarm, trim and quit (the keys that
\* nudge the reference, lines 489-517, and the help are not modelled)
HandleKey(K) ==
    /\ mpc = "key"
    /\ \E k \in K :
         /\ ch' = k
         /\ mpc' = CASE k = "e" -> "en_send"
                     [] k \in {"q", "Q"} -> "dis_send"
                     [] k = ">" -> "inc_load"
                     [] OTHER -> "dec_load"
    /\ UNCHANGED <<fields, link, ctl, prog, n, wp, trim, nwp>>

\* lines 31-35: Ctrl-C or the end of stdin ends read_input, and with it the for loop
\* of handle_keyboard_input, which returns to line 559
ReadInputEnds ==
    /\ mpc = "key"
    /\ ch' = "interrupt"
    /\ mpc' = "close"
    /\ UNCHANGED <<fields, link, ctl, prog, n, wp, trim, nwp>>

\* lines 427-430: 'e' arms and starts the sequence; a KeyboardInterrupt ends read_input,
\* and with it the for loop, without a call of enable()
SeqKey ==
    /\ mpc = "seq_key"
    /\ \E k \in {"e", "interrupt"} :
         /\ ch' = k
         /\ mpc' = IF k = "e" THEN "en_send" ELSE "wp_range"
    /\ UNCHANGED <<fields, link, ctl, prog, n, wp, trim, nwp>>

\* len(control.config['coordinates']['x'])
NumWaypoints(cfg) == Len(cfg.coordinates.x)

\* line 432: range(len(...)) is evaluated once, when the for loop is entered
WpRange ==
    /\ mpc = "wp_range"
    /\ nwp' = NumWaypoints(config)
    /\ mpc' = "wp_next"
    /\ UNCHANGED <<fields, link, ctl, prog, ch, n, wp, trim>>

\* line 432: the next n of the range, or line 460 after the last
WpNext ==
    /\ mpc = "wp_next"
    /\ mpc' = IF n < nwp THEN "wp_read" ELSE "dis_send"
    /\ UNCHANGED <<fields, link, ctl, prog, ch, n, wp, trim, nwp>>

\* lines 436-445; waypoint n of the program is element n + 1 here; an index past the
\* end of a list of the configuration in force raises IndexError, which nothing catches
WpRead ==
    /\ mpc = "wp_read"
    /\ LET c == config.coordinates
           dx == IF c.relative THEN pos_ref_initial[1] ELSE 0
           dy == IF c.relative THEN pos_ref_initial[2] ELSE 0
       IN IF n + 1 <= NumWaypoints(config)
            THEN /\ wp' = <<c.x[n + 1] + dx, c.y[n + 1] + dy, c.z[n + 1], c.yaw[n + 1]>>
                 /\ mpc' = "wp_set_pos"
            ELSE /\ wp' = wp
                 /\ mpc' = "raised"
    /\ UNCHANGED <<fields, link, ctl, prog, ch, n, trim, nwp>>

\* line 451
WpSetPos ==
    /\ mpc = "wp_set_pos"
    /\ pos_ref' = <<wp[1], wp[2], wp[3]>>
    /\ mpc' = "wp_set_yaw"
    /\ UNCHANGED <<enabled, estimate, cum_height_err, err_mag, err_mag_ref, outputs, yaw_ref,
                   pos_ref_initial, config, link, ctl, prog, ch, n, wp, trim, nwp>>

\* line 452
WpSetYaw ==
    /\ mpc = "wp_set_yaw"
    /\ yaw_ref' = wp[4]
    /\ mpc' = "wp_poll"
    /\ UNCHANGED <<enabled, estimate, cum_height_err, err_mag, err_mag_ref, outputs, pos_ref,
                   pos_ref_initial, config, link, ctl, prog, ch, n, wp, trim, nwp>>

\* lines 455-456: the wait is left when the condition is false; while it is true the
\* thread sleeps 0.1 s and reads again
WpPoll ==
    /\ mpc = "wp_poll"
    /\ ~ErrAbove(err_mag, config.waypoint_margin)
    /\ mpc' = "wp_settle"
    /\ UNCHANGED <<fields, link, ctl, prog, ch, n, wp, trim, nwp>>

\* line 458 and the step of the for loop
WpSettle ==
    /\ mpc = "wp_settle"
    /\ n' = n + 1
    /\ mpc' = "wp_next"
    /\ UNCHANGED <<fields, link, ctl, prog, ch, wp, trim, nwp>>

Coordinates == SeqKey \/ WpRange \/ WpNext \/ WpRead \/ WpSetPos \/ WpSetYaw \/ WpPoll \/ WpSettle

\* line 559; the main thread ends and the daemon control thread with it
CloseLink ==
    /\ mpc = "close"
    /\ mpc' = "exited"
    /\ connected' = FALSE
    /\ UNCHANGED <<fields, pos_received, sent, ctl, prog, ch, n, wp, trim, nwp>>

\* ----------------------------------------------------------- specifications

Control(C) == Startup \/ CalcControlSignals(C) \/ Dispatch \/ LoopSleep

\* the program as shipped (line 556): the operator arms, disarms and quits while the
\* control thread runs; the threads interleave at every statement
Next ==
    \/ Control({CfgA}) \/ Connected \/ LogDataPos(PosFlight)
    \/ HandleKey(ArmKeys) \/ ReadInputEnds \/ Enable \/ Disable \/ CloseLink

Spec == Init({"keyboard"}, {CfgA}) /\ [][Next]_vars

\* the program with line 557 in place of line 556: coordinates() on the main thread
NextCoord ==
    \/ Control(Configs) \/ Connected \/ LogDataPos(PosFlight)
    \/ Enable \/ Disable \/ Coordinates \/ CloseLink

SpecCoord == Init({"coordinates"}, Configs) /\ [][NextCoord]_vars

\* the places where a thread sleeps or blocks (for the control thread: the waits of
\* its startup and the call of loop_sleep between two ticks)
CtlIdle == cpc \in {"connect_wait", "reset_estimator", "loop_sleep", "dead"}
MainIdle == mpc \in {"key", "exited"}

\* the program as shipped with every call run to completion: a thread runs from one
\* sleep or blocking read to the next while the others are asleep or blocked
NextSeq ==
    \/ MainIdle /\ ConnectWait
    \/ MainIdle /\ ResetEstimator
    \/ MainIdle /\ MakePositionSanityCheck
    \/ MainIdle /\ SeedPosRef
    \/ MainIdle /\ SeedYawRef
    \/ MainIdle /\ SeedInitial
    \/ MainIdle /\ CalcEuler
    \/ MainIdle /\ CalcErr
    \/ MainIdle /\ CalcErrMag
    \/ MainIdle /\ CalcEyaw
    \/ MainIdle /\ CalcAccLoad
    \/ MainIdle /\ CalcAccStore
    \/ MainIdle /\ CalcAccClip
    \/ MainIdle /\ CalcThrust
    \/ MainIdle /\ CalcPitch
    \/ MainIdle /\ CalcRoll
    \/ MainIdle /\ CalcRotate
    \/ MainIdle /\ CalcYawrate
    \/ MainIdle /\ ClipRoll
    \/ MainIdle /\ ClipPitch
    \/ MainIdle /\ ClipYawrate
    \/ MainIdle /\ ClipThrust
    \/ MainIdle /\ PrintAtPeriod(Configs)
    \/ MainIdle /\ RunIfEnabled
    \/ MainIdle /\ RunSp
    \/ MainIdle /\ RunSend
    \/ MainIdle /\ RunLog
    \/ MainIdle /\ LoopSleepDelta
    \/ MainIdle /\ LoopSleepIf
    \/ MainIdle /\ LoopSleepSleep
    \/ MainIdle /\ LoopSleepWarn
    \/ CtlIdle /\ MainIdle /\ Connected
    \/ CtlIdle /\ MainIdle /\ LogDataPos(PosSeq)
    \/ CtlIdle /\ MainIdle /\ LogDataStabAtt(StabSeq)
    \/ CtlIdle /\ HandleKey(Keys)
    \/ CtlIdle /\ EnableSend
    \/ CtlIdle /\ EnableCum
    \/ CtlIdle /\ EnableSet
    \/ CtlIdle /\ DisableSend
    \/ CtlIdle /\ DisableFlag
    \/ CtlIdle /\ DisableRoll
    \/ CtlIdle /\ DisablePitch
    \/ CtlIdle /\ DisableYawrate
    \/ CtlIdle /\ DisableThrust
    \/ CtlIdle /\ IncreaseLoad
    \/ CtlIdle /\ IncreaseStore
    \/ CtlIdle /\ IncreaseMin
    \/ CtlIdle /\ DecreaseLoad
    \/ CtlIdle /\ DecreaseStore
    \/ CtlIdle /\ DecreaseMax
    \/ CtlIdle /\ CloseLink

SpecSeq == Init({"keyboard"}, Configs) /\ [][NextSeq]_vars

\* one tick of the control loop from any estimate, reference, integral and gains
InitLaw ==
    /\ enabled \in BOOLEAN
    /\ pos \in PosLaw /\ vel \in VelLaw /\ attq \in AttqLaw /\ R = attq
    /\ yawrate \in YawrateLaw /\ stab_att \in StabLaw
    /\ cum_height_err \in CumLaw /\ err_mag = 0 /\ err_mag_ref = NoRef
    /\ roll_r = 0 /\ pitch_r = 0 /\ yawrate_r = 0 /\ thrust_r = thrust_initial
    /\ pos_ref \in RefLaw /\ yaw_ref \in YawRefLaw /\ pos_ref_initial = <<0, 0, 1>>
    /\ config \in Configs
    /\ connected = TRUE /\ pos_received = TRUE /\ sent = "enable"
    /\ cpc = "c_euler" /\ InitCtlLocals
    /\ prog = "keyboard" /\ mpc = "key" /\ ch = "" /\ n = 0 /\ wp = <<0, 0, 0, 0>> /\ trim = 0 /\ nwp = 0

NextLaw == CalcControlSignals(Configs) \/ Dispatch

SpecLaw == InitLaw /\ [][NextLaw]_vars

\* the startup of run() from any position estimate the warm-up may end with
InitCheck ==
    /\ enabled = FALSE
    /\ pos \in PosBox /\ vel = <<0, 0, 0>> /\ attq = 0 /\ R = 0
    /\ yawrate = 0 /\ stab_att = <<0, 0, 0>>
    /\ cum_height_err = 0 /\ err_mag = 0 /\ err_mag_ref = NoRef
    /\ roll_r = 0 /\ pitch_r = 0 /\ yawrate_r = 0 /\ thrust_r = thrust_initial
    /\ pos_ref = <<0, 0, 1>> /\ yaw_ref = 0 /\ pos_ref_initial = <<0, 0, 1>>
    /\ config \in Configs
    /\ connected = TRUE /\ pos_received = TRUE /\ sent = "none"
    /\ cpc = "connect_wait" /\ InitCtlLocals
    /\ prog = "keyboard" /\ mpc = "key" /\ ch = "" /\ n = 0 /\ wp = <<0, 0, 0, 0>> /\ trim = 0 /\ nwp = 0

NextCheck == Startup

SpecCheck == InitCheck /\ [][NextCheck]_vars

\* an armed flight in which the four log blocks deliver samples while the control
\* thread runs its ticks: the callbacks run on the link's thread and interleave with
\* the tick at every statement
InitEst ==
    /\ enabled = TRUE
    /\ pos = <<0, 0, 1>> /\ vel = <<0, 0, 0>> /\ attq = 0 /\ R = 0
    /\ yawrate = 0 /\ stab_att = <<0, 0, 0>>
    /\ cum_height_err = 0 /\ err_mag = 0 /\ err_mag_ref = NoRef
    /\ roll_r = 0 /\ pitch_r = 0 /\ yawrate_r = 0 /\ thrust_r = thrust_initial
    /\ pos_ref = <<0, 0, 1>> /\ yaw_ref = 0 /\ pos_ref_initial = <<0, 0, 1>>
    /\ config = CfgA
    /\ connected = TRUE /\ pos_received = TRUE /\ sent = "enable"
    /\ cpc = "c_euler" /\ InitCtlLocals
    /\ prog = "keyboard" /\ mpc = "key" /\ ch = "e" /\ n = 0 /\ wp = <<0, 0, 0, 0>> /\ trim = 0 /\ nwp = 0

NextEst ==
    \/ CalcControlSignals({CfgA}) \/ Dispatch \/ LoopSleep
    \/ LogDataStabAtt(StabSeq) \/ LogDataPos(PosEst)
    \/ LogDataVel(VelEst, YawrateEst) \/ LogDataAtt(AttqEst)

SpecEst == InitEst /\ [][NextEst]_vars

\* the program as shipped with the operator arming and trimming the thrust while the
\* control thread runs; the threads interleave at every statement
NextTrim ==
    \/ Control({CfgA}) \/ Connected \/ LogDataPos(PosHover)
    \/ HandleKey(TrimKeys) \/ Enable \/ IncreaseThrust \/ DecreaseThrust

SpecTrim == Init({"keyboard"}, {CfgA}) /\ [][NextTrim]_vars

\* the program with coordinates() on the main thread and a config.json whose waypoint
\* list is edited during the flight; print_at_period reads it every half second
NextReload ==
    \/ Control(ConfigsReload) \/ Connected \/ LogDataPos(PosHover)
    \/ Enable \/ Disable \/ Coordinates \/ CloseLink

SpecReload == Init({"coordinates"}, ConfigsReload) /\ [][NextReload]_vars

\* ------------------------------------------------------------------ claims

\* C1 (as claimed): while the controller is disarmed the last setpoint the vehicle
\* received is not one of the run loop's: after disable() has sent its zero setpoint
\* and cleared enabled, the run loop sends nothing until the next enable().
C1_NoRunSetpointWhileDisarmed == ~enabled => sent # "run"

\* C2 (as claimed): the wait loop for a waypoint is left only with the error magnitude
\* strictly below the margin.
C2_LeavesWaitStrictlyBelow ==
    [][(mpc = "wp_poll" /\ mpc' = "wp_settle")
         => err_mag < config.waypoint_margin * config.waypoint_margin]_vars

\* C2 (amended): the wait loop for a waypoint is left only with the error magnitude
\* at most the margin (the loop waits while err_mag > margin, so it is also left when
\* the two are equal).
C2_LeavesWaitWithinMargin ==
    [][(mpc = "wp_poll" /\ mpc' = "wp_settle")
         => err_mag <= config.waypoint_margin * config.waypoint_margin]_vars

\* C2 witness: the wait for the second waypoint was left with the error magnitude
\* equal to the margin.
C2_LeftWaitAtTheMargin ==
    /\ mpc = "wp_settle" /\ n = 1 /\ enabled
    /\ err_mag > 0
    /\ err_mag = config.waypoint_margin * config.waypoint_margin

\* C3 (as claimed): the sequencer sets no waypoint as the reference and leaves no
\* waypoint wait while the controller is disarmed.
C3_NoAdvanceWhileDisarmed ==
    [][((mpc = "wp_set_pos" /\ mpc' = "wp_set_yaw") \/ (mpc = "wp_poll" /\ mpc' = "wp_settle"))
         => enabled]_vars

\* C4 (as claimed): whenever enabled becomes true the height-error integral is 0.
C4_RearmResetsIntegral == [][(~enabled /\ enabled') => cum_height_err' = 0]_vars

\* C5: from the clamping at the end of calc_control_signals to the end of an armed
\* tick, roll_r and pitch_r lie in [-30, 30], yawrate_r in [-200, 200] and thrust_r in
\* [0, .8 * 2^16 - 1] (thrust_r in units of 1/ThrustUnit).
C5_OutputsWithinLimits ==
    (enabled /\ cpc \in {"c_print", "r_enabled", "r_sp", "r_send", "r_log"})
      => /\ -30 <= roll_r /\ roll_r <= 30
         /\ -30 <= pitch_r /\ pitch_r <= 30
         /\ -200 <= yawrate_r /\ yawrate_r <= 200
         /\ 0 <= thrust_r /\ 10 * thrust_r <= (8 * 65536 - 10) * ThrustUnit

\* C5 witness: an armed tick at extreme tilt and with a large position error has been
\* clamped: thrust at its upper limit, pitch, roll and yaw rate at a limit.
C5_ClampedAtExtremeTilt ==
    /\ enabled /\ cpc = "r_enabled"
    /\ stab_att[1] = 60 /\ stab_att[2] = 60
    /\ thrust_r = thrust_limit[2]
    /\ pitch_r \in {-30, 30} /\ roll_r \in {-30, 30}
    /\ yawrate_r = -200

\* the outputs after disable(): idle
OutputsIdle == roll_r = 0 /\ pitch_r = 0 /\ yawrate_r = 0 /\ thrust_r = thrust_initial

\* C6: when disable() returns, roll_r, pitch_r and yawrate_r are 0, thrust_r is
\* thrust_initial and enabled is false, whatever they were before; and a disable()
\* called in that state changes no field of the controller.
C6_DisableLeavesIdle ==
    [][/\ (mpc = "dis_thrust" /\ mpc' # "dis_thrust") => (OutputsIdle' /\ ~enabled')
       /\ (mpc \in {"dis_send", "dis_flag", "dis_roll", "dis_pitch", "dis_yawrate", "dis_thrust"}
             /\ OutputsIdle /\ ~enabled) => fields' = fields]_vars

\* C6 witness: disable() is about to reset a thrust left by an armed period that
\* accumulated height error; it has disarmed and zeroed the other outputs.
C6_DisableAfterArmedOutputs ==
    /\ mpc = "dis_thrust" /\ thrust_r > thrust_initial /\ cum_height_err # 0
    /\ ~enabled /\ roll_r = 0 /\ pitch_r = 0 /\ yawrate_r = 0 /\ sent = "disable"

\* C7: the height-error integral lies in [-200, 200] in every state but the one
\* between the two statements of the accumulation, lines 290 and 291.
C7_IntegralWithinLimit ==
    cpc # "c_acc_clip" => (-200 <= cum_height_err /\ cum_height_err <= 200)

\* C7 witness: an error of one sign persisted: the sum passed the limit and was
\* clipped to it.
C7_IntegralClipped == cpc = "c_thrust" /\ acc > 200 /\ cum_height_err = 200

\* C8: make_position_sanity_check raises for every position with |x| > 20, |y| > 20,
\* z < 0 or z > 5, returns for every position with |x| < 20, |y| < 20 and 0 < z < 5,
\* and changes no field of the controller.
C8_SanityCheckBox ==
    [][(cpc = "sanity" /\ cpc' # "sanity")
         => /\ (pos[1] > 20 \/ pos[1] < -20 \/ pos[2] > 20 \/ pos[2] < -20
                  \/ pos[3] < 0 \/ pos[3] > 5) => cpc' = "dead"
            /\ (-20 < pos[1] /\ pos[1] < 20 /\ -20 < pos[2] /\ pos[2] < 20
                  /\ 0 < pos[3] /\ pos[3] < 5) => cpc' = "seed_pos_ref"
            /\ fields' = fields]_vars

\* C8 witness: the check raised for a position above the box and within it in x and y.
C8_RejectedAboveTheBox ==
    cpc = "dead" /\ pos[3] > 5 /\ pos[1] = 0 /\ pos[2] = 0

\* the places of run() before make_position_sanity_check has returned, and the place
\* where it has raised
BeforeCheckPassed == cpc \in {"connect_wait", "reset_estimator", "sanity", "dead"}

\* the places of run() inside the loop of line 243
InTick == ~BeforeCheckPassed /\ cpc \notin {"seed_pos_ref", "seed_yaw_ref", "seed_initial"}

\* C9 (as claimed): enabled is not true and no tick runs before the position sanity
\* check has run and passed; when it fails no tick ever runs and nothing is armed.
C9_CheckBeforeArm == (enabled \/ InTick) => ~BeforeCheckPassed

\* C10 (as claimed): the run loop dispatches no setpoint of a tick that computed on an
\* out-of-bounds position estimate (the controller has disarmed by then).
C10_NoDispatchOutOfBounds == cpc = "r_send" => ~PositionOutOfBounds(pos)

\* C11: enabled becomes true only at the last statement of enable() (line 402), that
\* statement is reached only through line 401 and line 401 only through the send of
\* the zero setpoint (line 400), which the vehicle then has as its last setpoint: on
\* every enable() the zero setpoint is sent before enabled becomes true, so the run
\* loop's first setpoint of an armed period comes after it.
C11_ZeroSetpointBeforeArmed ==
    [][/\ (~enabled /\ enabled') => mpc = "en_set"
       /\ (mpc' = "en_set" /\ mpc # "en_set") => mpc = "en_cum"
       /\ (mpc' = "en_cum" /\ mpc # "en_cum") => (mpc = "en_send" /\ sent' = "enable")
       /\ (sent' = "run" /\ sent # "run" /\ enabled) => cpc = "r_send"]_vars

\* C11 witness: the run loop has dispatched the first setpoint of an armed period: the
\* last key was 'e', enable() has returned and the setpoint before was its zero setpoint.
C11_FirstDispatchAfterEnable ==
    /\ enabled /\ ch = "e" /\ mpc = "key"
    /\ cpc = "r_log" /\ sent = "run"

\* C12 (as claimed): the values of the estimate one tick reads come from one state of
\* the estimate store: the stabilizer sample whose roll and pitch the tick reads at
\* lines 304-305 is the sample whose yaw it read at line 284, and the position and the
\* attitude that log_data writes to the tick's record are those the tick computed its
\* errors and its rotation from (the reference does not change in these runs).
C12_TickReadsOneEstimate ==
    [][/\ (cpc = "c_thrust" /\ cpc' = "c_pitch") => eyaw = yaw_ref - stab_att[3]
       /\ (cpc = "r_log" /\ cpc' = "loop_sleep")
            => (e = <<pos_ref[1] - pos[1], pos_ref[2] - pos[2], pos_ref[3] - pos[3]>>
                  /\ yaw = attq)]_vars

\* C13 (as claimed): every setpoint the run loop dispatches carries a thrust in
\* [0, 2^16), also when increase_thrust() or decrease_thrust() run between the tick's
\* clamping of thrust_r and line 248, or have run half-way by then.
C13_DispatchedThrustInRange == cpc = "r_send" => (0 <= sp[4] /\ sp[4] < 65536)

\* C14: with each call run to completion, increase_thrust() stores thrust_r +
\* thrust_step and decrease_thrust() stores thrust_r - thrust_step (lines 414, 418),
\* each then clamps (lines 415, 419), and when either returns thrust_r is in
\* [0, 0xFFFF] (thrust_r in units of 1/ThrustUnit).
C14_TrimStepsAndClamps ==
    [][/\ (mpc = "inc_store" /\ mpc' = "inc_min") => thrust_r' = thrust_r + 5000 * ThrustUnit
       /\ (mpc = "dec_store" /\ mpc' = "dec_max") => thrust_r' = thrust_r - 5000 * ThrustUnit
       /\ (mpc = "inc_min" /\ mpc' = "key")
            => thrust_r' = (IF thrust_r > 65535 * ThrustUnit THEN 65535 * ThrustUnit ELSE thrust_r)
       /\ (mpc = "dec_max" /\ mpc' = "key") => thrust_r' = (IF thrust_r < 0 THEN 0 ELSE thrust_r)
       /\ (mpc \in {"inc_min", "dec_max"} /\ mpc' = "key")
            => (0 <= thrust_r' /\ thrust_r' <= 65535 * ThrustUnit)]_vars

\* C14 witness: repeated '>' have taken thrust_r from a value below 0xFFFF to the
\* clamp: increase_thrust() has returned with thrust_r = 0xFFFF.
C14_TrimmedToTheTop == mpc = "key" /\ ch = ">" /\ thrust_r = 65535 * ThrustUnit

\* the places of coordinates() inside its for loop
InSequence == mpc \in {"wp_next", "wp_read", "wp_set_pos", "wp_set_yaw", "wp_poll", "wp_settle"}

\* C15 (as claimed): the sequencer is strictly sequential: the waypoint index moves from
\* n to n + 1 only, and only past the gate and the settle delay of waypoint n; each
\* index is read and set as the reference once, in the order read, set, gate, settle;
\* the for loop is left only to call disable(), after the gate and settle delay of the
\* last waypoint of the range; and after disable() nothing but close_link follows.
C15_SequencerStrictlySequential ==
    [][/\ n' # n => (n' = n + 1 /\ mpc = "wp_settle")
       /\ (mpc' = "wp_next" /\ mpc # "wp_next") => mpc \in {"wp_range", "wp_settle"}
       /\ (mpc' = "wp_read" /\ mpc # "wp_read") => (mpc = "wp_next" /\ n < nwp)
       /\ (mpc' = "wp_set_pos" /\ mpc # "wp_set_pos") => mpc = "wp_read"
       /\ (mpc = "wp_set_pos" /\ mpc' # "wp_set_pos")
            => (pos_ref' = <<wp[1], wp[2], wp[3]>> /\ mpc' = "wp_set_yaw")
       /\ (mpc = "wp_set_yaw" /\ mpc' # "wp_set_yaw") => (yaw_ref' = wp[4] /\ mpc' = "wp_poll")
       /\ (mpc' = "wp_settle" /\ mpc # "wp_settle") => mpc = "wp_poll"
       /\ (InSequence /\ ~InSequence') => (mpc = "wp_next" /\ n = nwp /\ mpc' = "dis_send")
       /\ (prog = "coordinates" /\ mpc' = "dis_send" /\ mpc # "dis_send") => mpc = "wp_next"
       /\ mpc \in {"close", "exited"} => mpc' \in {"close", "exited"}]_vars

\* C16: in loop_sleep, with elapsed the time since the tick started: when elapsed >= 20
\* ms the loop does not sleep, logs the deadline miss and starts the next tick; when
\* elapsed < 20 ms it sleeps for 20 ms - elapsed, logs no miss, and starts the next tick.
C16_SleepsOrReportsMiss ==
    [][/\ (cpc = "ls_if" /\ cpc' # "ls_if")
            => /\ elapsed >= 20 => cpc' = "ls_warn"
               /\ elapsed < 20 => (cpc' = "ls_sleep" /\ delta_time = 20 - elapsed)
       /\ (cpc \in {"ls_sleep", "ls_warn"} /\ cpc' # cpc) => cpc' = "c_euler"
       /\ (cpc' = "ls_warn" /\ cpc # "ls_warn") => (cpc = "ls_if" /\ elapsed >= 20)
       /\ (cpc' = "ls_sleep" /\ cpc # "ls_sleep") => (cpc = "ls_if" /\ elapsed < 20)]_vars

\* C16 witness: an armed tick took exactly the period: the miss is being logged, there
\* was no sleep.
C16_MissAtExactlyThePeriod == cpc = "ls_warn" /\ elapsed = 20 /\ enabled /\ sent = "run"

\* what one tick computes from the configuration c and the values it read
TickOutputs(c) ==
    LET pr == RotatePitchRoll(yaw, PitchRaw(c, e[1], vel[1]), RollRaw(c, e[2], vel[2]))
    IN [roll |-> Clip(pr[2], roll_limit), pitch |-> Clip(pr[1], pitch_limit),
        yawrate |-> Clip(YawrateRaw(c, eyaw, yawrate), yaw_limit),
        thrust |-> Clip(ThrustRaw(c, e[3], vel[3], cum_height_err, stab_att), thrust_limit)]

\* C17: self.config is replaced only by the reload in print_at_period, after the
\* tick's outputs have been computed and clamped, and the four outputs of a tick are
\* those computed from the one configuration in force until then: a reload takes
\* effect from the next tick's computation.
C17_ConfigFixedWithinTick ==
    [][/\ config' # config => (cpc = "c_print" /\ cpc' = "r_enabled")
       /\ (cpc = "c_print" /\ cpc' # "c_print")
            => /\ roll_r = TickOutputs(config).roll /\ pitch_r = TickOutputs(config).pitch
               /\ yawrate_r = TickOutputs(config).yawrate
               /\ thrust_r = TickOutputs(config).thrust
               /\ outputs' = outputs]_vars

\* C17 witness: the reload has put another configuration in force at the end of a tick:
\* the outputs are those computed from the gains read before it and not those the new
\* gains give.
C17_ReloadedAfterTheOutputs ==
    /\ cpc = "r_enabled" /\ config = CfgB /\ stab_att[1] = 60
    /\ thrust_r = TickOutputs(CfgA).thrust /\ thrust_r # TickOutputs(CfgB).thrust
    /\ yawrate_r = TickOutputs(CfgA).yawrate /\ yawrate_r # TickOutputs(CfgB).yawrate

\* C18: on the quit command 'Q', disable() has sent its zero setpoint and has returned
\* before the input loop ends: enabled is false when close_link is called and when
\* the program ends.
C18_QuitDisarmsFirst ==
    [][/\ (ch' = "Q" /\ mpc' = "close" /\ mpc # "close") => mpc = "dis_thrust"
       /\ (ch = "Q" /\ mpc = "dis_send" /\ mpc' # "dis_send") => sent' = "disable"
       /\ (ch = "Q" /\ mpc \in {"dis_roll", "dis_pitch", "dis_yawrate", "dis_thrust", "close"})
            => (~enabled /\ ~enabled')]_vars

\* C18 witness: 'Q' was pressed in an armed flight that had accumulated height error:
\* close_link is about to be called, the controller is disarmed and the outputs idle.
C18_QuitFromArmedFlight ==
    /\ mpc = "close" /\ ch = "Q" /\ ~enabled /\ cum_height_err # 0
    /\ thrust_r = thrust_initial /\ pos[3] = -99

\* C19 (as claimed): in an armed flight, the error magnitude that opens the gate of a
\* waypoint after the first, when a tick has stored it, was stored by a tick that read
\* the reference after it was set to that waypoint: the reference that tick read is
\* the waypoint.
C19_GateOpensOnFreshError ==
    [][(mpc = "wp_poll" /\ mpc' = "wp_settle" /\ n >= 1 /\ enabled /\ err_mag_ref # NoRef)
         => err_mag_ref = pos_ref]_vars

\* coordinates() has set the reference to a waypoint
ReferenceSet == mpc \in {"wp_set_yaw", "wp_poll", "wp_settle"} \/ n >= 1

\* C20 (as claimed): once coordinates() has armed the controller and set the reference
\* to a waypoint, pos_ref and yaw_ref change only when coordinates() sets them (lines
\* 451, 452): run() does not overwrite them, whenever its startup runs.
C20_OnlySequencerWritesReference ==
    [][/\ (ReferenceSet /\ enabled /\ pos_ref' # pos_ref)
            => (mpc = "wp_set_pos" /\ mpc' = "wp_set_yaw")
       /\ (ReferenceSet /\ enabled /\ yaw_ref' # yaw_ref)
            => (mpc = "wp_set_yaw" /\ mpc' = "wp_poll")]_vars

\* C21: the lateral command is rotated by the estimated yaw (line 275), whatever the
\* reference yaw: with estimated yaw 90 degrees, zero lateral velocity and a position
\* error along world x only, the command before the rotation is the pure pitch command
\* 20 * kP * ex with roll 0, and after the rotation (before the clamping) it is the
\* pure roll command of that magnitude with pitch 0.
C21_PitchBecomesRollAtYaw90 ==
    [][(cpc = "c_rotate" /\ cpc' = "c_yawrate"
          /\ attq = 90 /\ vel[1] = 0 /\ vel[2] = 0 /\ pos_ref[2] - pos[2] = 0)
         => /\ pitch_r = 20 * config.pitchroll.kP * (pos_ref[1] - pos[1]) /\ roll_r = 0
            /\ pitch_r' = 0
            /\ roll_r' = 20 * config.pitchroll.kP * (pos_ref[1] - pos[1])]_vars

\* C21 witness: estimated yaw 90 degrees with reference yaw 0, error 3 m along world x,
\* kP 5: the rotation has turned the pitch command 300 into the roll command 300.
C21_RolledAgainstReferenceYaw ==
    /\ cpc = "c_yawrate" /\ attq = 90 /\ yaw_ref = 0 /\ vel = <<0, 0, 0>>
    /\ e[1] = 3 /\ e[2] = 0 /\ config = CfgB
    /\ pitch_r = 0 /\ roll_r = 300

====
